---- MODULE Spec2Model ----
(***************************************************************************)
(* Model of shellx's command-string tokenizer, ParseCmd                    *)
(* (internal/utils/parser.go).  One call of ParseCmd is a state machine:   *)
(* the call trims its argument, scans it rune by rune and returns.         *)
(* A string is a sequence of runes; a rune is a one-character string.      *)
(***************************************************************************)
EXTENDS Integers, Sequences, FiniteSets, TLC

\* Longest argument passed to ParseCmd.
MaxLen == 4

\* The runes the arguments are drawn from.
DQ == "\""
SQ == "'"
\* The backtick, U+0060 (written out: the glyph does not lex inside a string).
BQ == "BACKTICK"
BS == "\\"
SP == " "
TAB == "\t"
NL == "\n"
CR == "\r"
Runes == {"a", BS, SP, TAB, NL, CR, DQ, SQ, BQ}

\* The zero value of the local quote (a rune).
NoQuote == "NUL"

Strings(n) == UNION {[1..k -> Runes] : k \in 0..n}

Last(w) == w[Len(w)]

(***************************************************************************)
(* strings.TrimSpace: leading and trailing Unicode white space is removed. *)
(* Of the runes of the model, space, tab, newline and carriage return are  *)
(* white space.                                                            *)
(***************************************************************************)
IsSpace(r) == r \in {SP, TAB, NL, CR}

RECURSIVE TrimLeft(_)
TrimLeft(str) ==
    IF str # <<>> /\ IsSpace(Head(str)) THEN TrimLeft(Tail(str)) ELSE str

RECURSIVE TrimRight(_)
TrimRight(str) ==
    IF str # <<>> /\ IsSpace(Last(str))
    THEN TrimRight(SubSeq(str, 1, Len(str) - 1))
    ELSE str

\* A mutant of TrimSpace: strings.TrimLeft, the end of the string is kept.
TrimLeftOnly(str) == TrimLeft(str)

\* A mutant of TrimSpace: strings.Trim(cmdStr, " \t").
RECURSIVE TrimBlanks(_)
TrimBlanks(str) ==
    IF str # <<>> /\ Head(str) \in {SP, TAB} THEN TrimBlanks(Tail(str))
    ELSE IF str # <<>> /\ Last(str) \in {SP, TAB}
         THEN TrimBlanks(SubSeq(str, 1, Len(str) - 1))
         ELSE str

TrimSpace(str) == TrimRight(TrimLeft(str))

(***************************************************************************)
(* The scanner.  A scanner state is the record of ParseCmd's locals.       *)
(***************************************************************************)
\* var ( result []string; current []rune; inQuotes bool; quote rune; hadQuotes bool )
ZeroLocals ==
    [result |-> <<>>, current |-> <<>>, inQuotes |-> FALSE,
     quote |-> NoQuote, hadQuotes |-> FALSE]

\* r == '"' || r == '\'' || r == '`'
IsQuoteRune(r) == r \in {DQ, SQ, BQ}

\* A mutant of IsBoundary: the test `&& !inQuotes` is missing.
IsBoundaryAnywhere(st, r) == r = SP \/ r = TAB

\* (r == ' ' || r == '\t') && !inQuotes
IsBoundary(st, r) == (r = SP \/ r = TAB) /\ ~st.inQuotes

\* A mutant of NeedFlush: every boundary emits a word.
NeedFlushAlways(st) == TRUE

\* A mutant of NeedFlush: hadQuotes is not consulted.
NeedFlushNonEmpty(st) == Len(st.current) > 0

\* len(current) > 0 || hadQuotes
NeedFlush(st) == Len(st.current) > 0 \/ st.hadQuotes

\* A mutant of OpenQuote: hadQuotes is not set.
OpenQuoteUnmarked(st, r) ==
    [st EXCEPT !.inQuotes = TRUE, !.quote = r]

\* inQuotes = true; quote = r; hadQuotes = true
OpenQuote(st, r) ==
    [st EXCEPT !.inQuotes = TRUE, !.quote = r, !.hadQuotes = TRUE]

\* A mutant of ClosesQuote: any quote rune closes the open quote.
ClosesQuoteAny(st, r) == TRUE

\* r == quote
ClosesQuote(st, r) == r = st.quote

\* A mutant of CloseQuote: the closing quote also emits the word.
CloseQuoteEmit(st) ==
    [st EXCEPT !.inQuotes = FALSE, !.result = Append(@, st.current),
               !.current = <<>>, !.hadQuotes = FALSE]

\* inQuotes = false
CloseQuote(st) == [st EXCEPT !.inQuotes = FALSE]

\* current = append(current, r)
AppendRune(st, r) == [st EXCEPT !.current = Append(@, r)]

\* A mutant of FlushWord: the buffer is not truncated after the emission.
FlushWordKeep(st) ==
    [st EXCEPT !.result = Append(@, st.current), !.hadQuotes = FALSE]

\* result = append(result, string(current)); current = current[:0]; hadQuotes = false
FlushWord(st) ==
    [st EXCEPT !.result = Append(@, st.current), !.current = <<>>,
               !.hadQuotes = FALSE]

\* A mutant of ScanRune: a quote rune that follows a backslash is literal.
ScanRuneEscaped(st, r) ==
    IF IsQuoteRune(r) /\ st.current # <<>> /\ Last(st.current) = BS
    THEN AppendRune(st, r)
    ELSE IF IsQuoteRune(r)
    THEN IF ~st.inQuotes THEN OpenQuote(st, r)
         ELSE IF ClosesQuote(st, r) THEN CloseQuote(st)
         ELSE AppendRune(st, r)
    ELSE IF IsBoundary(st, r)
    THEN IF NeedFlush(st) THEN FlushWord(st) ELSE st
    ELSE AppendRune(st, r)

\* The body of the loop: for _, r := range cmdStr.
ScanRune(st, r) ==
    IF IsQuoteRune(r)
    THEN IF ~st.inQuotes THEN OpenQuote(st, r)
         ELSE IF ClosesQuote(st, r) THEN CloseQuote(st)
         ELSE AppendRune(st, r)
    ELSE IF IsBoundary(st, r)
    THEN IF NeedFlush(st) THEN FlushWord(st) ELSE st
    ELSE AppendRune(st, r)

\* A mutant of FinalFlush: the last word is not added after the loop.
FinalFlushMissing(st) == st

\* A mutant of FinalFlush: hadQuotes is not consulted after the loop.
FinalFlushContentOnly(st) ==
    IF Len(st.current) > 0 THEN [st EXCEPT !.result = Append(@, st.current)] ELSE st

\* if len(current) > 0 || hadQuotes { result = append(result, string(current)) }
FinalFlush(st) ==
    IF NeedFlush(st) THEN [st EXCEPT !.result = Append(@, st.current)] ELSE st

\* A mutant of Returned: the check of inQuotes is missing.
ReturnedUnchecked(st) == st.result

\* if inQuotes { return []string{} }; return result
Returned(st) == IF st.inQuotes THEN <<>> ELSE st.result

RECURSIVE ScanFrom(_, _)
ScanFrom(st, str) ==
    IF str = <<>> THEN st ELSE ScanFrom(ScanRune(st, Head(str)), Tail(str))

\* ParseCmd as a function of its argument.
ParseCmd(str) ==
    LET t == TrimSpace(str)
    IN  IF t = <<>> THEN <<>>
        ELSE Returned(FinalFlush(ScanFrom(ZeroLocals, t)))

(***************************************************************************)
(* One call of ParseCmd, step by step.                                     *)
(***************************************************************************)
VARIABLES
    arg,        \* the argument of the call
    pc,         \* "call", "scan", "done"
    cmdStr,     \* the parameter cmdStr (trimmed on entry)
    idx,        \* position of the next rune of the range loop
    result, current, inQuotes, quote, hadQuotes,   \* the locals
    ret         \* the returned slice

\* Concurrent calls of ParseCmd: for each goroutine the state of its call.
VARIABLE calls

parserVars ==
    <<arg, pc, cmdStr, idx, result, current, inQuotes, quote, hadQuotes, ret>>

\* A Command (command.go, internal.go) and the goroutines that use it.
VARIABLES
    api,        \* the construction layer in use: "command" (command.go) or "builder" (Builder.go)
    line,       \* the string given to NewCmdStr
    obj,        \* what the construction produced: "none", "command", "builder", "panic"
    name, args, raw, shellType,     \* the command to run
    dir, envs,  \* the fields dir and envs
    userCtx,    \* the field userCtx: "nil", "user" or "timeout" (the internal timeout context)
    timeout,    \* the field timeout
    execCmd,    \* the field execCmd: NilExecCmd or the exec.Cmd that was built
    cancel,     \* the field cancel: "nil" or "set"
    execOne,    \* the atomic flag execOne
    tctx,       \* the internal timeout context: "none", "live", "expired", "canceled"
    proc,       \* the process of execCmd: "none", "running", "ok", "failed", "killed"
    waited,     \* execCmd.Wait has been called
    thr,        \* for each goroutine the call it is in
    last,       \* the last call that returned and what it returned
    casPassed,  \* number of calls that passed the compare-and-swap of execOne
    built,      \* number of exec.Cmd objects that were made
    spawned     \* number of times a process was started

cmdVars ==
    <<api, line, obj, name, args, raw, shellType, dir, envs, userCtx, timeout, execCmd,
      cancel, execOne, tctx, proc, waited, thr, last, casPassed, built, spawned>>

\* A Shx (package shx) and the goroutines that use it.
VARIABLES
    shx,        \* the fields of the Shx
    shxThr,     \* for each goroutine the call of the Shx it is in
    shxLast,    \* the last call of the Shx that returned and what it returned
    ran         \* the runs of the interpreter, each with the writers and the context it was given

shxVars == <<shx, shxThr, shxLast, ran>>

\* No Shx is in use.
NoShx == shx = <<>> /\ shxThr = <<>> /\ shxLast = <<>> /\ ran = <<>>

\* c.execCmd == nil
NilExecCmd == [id |-> 0, ctx |-> "nil", shell |-> FALSE, script |-> <<>>, argv |-> <<>>]

\* No Command is in use.
NoCommand ==
    /\ api = "command" /\ line = <<>> /\ obj = "none"
    /\ name = <<>> /\ args = <<>> /\ raw = <<>> /\ shellType = "ShellSh"
    /\ dir = <<>> /\ envs = <<>>
    /\ userCtx = "nil" /\ timeout = 0 /\ execCmd = NilExecCmd /\ cancel = "nil"
    /\ execOne = FALSE /\ tctx = "none" /\ proc = "none" /\ waited = FALSE
    /\ thr = <<>> /\ last = <<>> /\ casPassed = 0 /\ built = 0 /\ spawned = 0

\* What a single call of ParseCmd does not touch.
beyondParseCmd == <<calls, cmdVars, shxVars>>

vars == <<parserVars, beyondParseCmd>>

\* No concurrent calls are running.
NoCalls == calls = <<>>

Locals ==
    [result |-> result, current |-> current, inQuotes |-> inQuotes,
     quote |-> quote, hadQuotes |-> hadQuotes]

SetLocals(st) ==
    /\ result' = st.result
    /\ current' = st.current
    /\ inQuotes' = st.inQuotes
    /\ quote' = st.quote
    /\ hadQuotes' = st.hadQuotes

Init ==
    /\ arg \in Strings(MaxLen)
    /\ pc = "call"
    /\ cmdStr = arg
    /\ idx = 1
    /\ result = <<>>
    /\ current = <<>>
    /\ inQuotes = FALSE
    /\ quote = NoQuote
    /\ hadQuotes = FALSE
    /\ ret = <<>>
    /\ NoCalls
    /\ NoCommand
    /\ NoShx

\* cmdStr = strings.TrimSpace(cmdStr); if cmdStr == "" { return []string{} }
ReturnEmpty ==
    /\ pc = "call"
    /\ TrimSpace(cmdStr) = <<>>
    /\ cmdStr' = TrimSpace(cmdStr)
    /\ ret' = <<>>
    /\ pc' = "done"
    /\ UNCHANGED <<arg, idx, result, current, inQuotes, quote, hadQuotes>>
    /\ UNCHANGED beyondParseCmd

BeginScan ==
    /\ pc = "call"
    /\ TrimSpace(cmdStr) # <<>>
    /\ cmdStr' = TrimSpace(cmdStr)
    /\ pc' = "scan"
    /\ UNCHANGED <<arg, idx, result, current, inQuotes, quote, hadQuotes, ret>>
    /\ UNCHANGED beyondParseCmd

\* The rune the loop reads next.
Scanning == pc = "scan" /\ idx <= Len(cmdStr)
Rune == cmdStr[idx]

\* A mutant of Advance: the rune after the one read is skipped.
AdvanceSkip ==
    /\ SetLocals(ScanRune(Locals, Rune))
    /\ idx' = idx + 2
    /\ UNCHANGED <<arg, pc, cmdStr, ret>>
    /\ UNCHANGED beyondParseCmd

\* One iteration of the range loop: the body, then the next rune.
Advance ==
    /\ SetLocals(ScanRune(Locals, Rune))
    /\ idx' = idx + 1
    /\ UNCHANGED <<arg, pc, cmdStr, ret>>
    /\ UNCHANGED beyondParseCmd

\* A quote rune outside quotes opens a quote.
ReadOpeningQuote ==
    /\ Scanning /\ IsQuoteRune(Rune) /\ ~inQuotes
    /\ Advance

\* The quote rune that opened the quote closes it.
ReadClosingQuote ==
    /\ Scanning /\ IsQuoteRune(Rune) /\ inQuotes /\ ClosesQuote(Locals, Rune)
    /\ Advance

\* Another quote rune inside quotes is content.
ReadOtherQuote ==
    /\ Scanning /\ IsQuoteRune(Rune) /\ inQuotes /\ ~ClosesQuote(Locals, Rune)
    /\ Advance

\* A space or tab outside quotes ends the word, if there is one.
ReadBoundary ==
    /\ Scanning /\ ~IsQuoteRune(Rune) /\ IsBoundary(Locals, Rune)
    /\ Advance

\* Every other rune is content.
ReadContent ==
    /\ Scanning /\ ~IsQuoteRune(Rune) /\ ~IsBoundary(Locals, Rune)
    /\ Advance

\* After the loop: the last word, the check of inQuotes, the return.
Finish ==
    /\ pc = "scan" /\ idx > Len(cmdStr)
    /\ SetLocals(FinalFlush(Locals))
    /\ ret' = Returned(FinalFlush(Locals))
    /\ pc' = "done"
    /\ UNCHANGED <<arg, cmdStr, idx>>
    /\ UNCHANGED beyondParseCmd

Next ==
    \/ ReturnEmpty
    \/ BeginScan
    \/ ReadOpeningQuote
    \/ ReadClosingQuote
    \/ ReadOtherQuote
    \/ ReadBoundary
    \/ ReadContent
    \/ Finish

Spec == Init /\ [][Next]_vars

\* A call that has not returned keeps running: it takes its next step.
FairSpec == Spec /\ WF_vars(Next)

TypeOK ==
    /\ arg \in Strings(MaxLen)
    /\ pc \in {"call", "scan", "done"}
    /\ idx \in 1..(MaxLen + 1)
    /\ inQuotes \in BOOLEAN
    /\ hadQuotes \in BOOLEAN
    /\ quote \in {DQ, SQ, BQ, NoQuote}

(***************************************************************************)
(* Concurrent calls of ParseCmd.  Each goroutine runs one call; the calls  *)
(* interleave rune by rune.  ParseCmd declares its scanner state with var  *)
(* inside the function, so every call has its own.                         *)
(***************************************************************************)
\* Longest argument of a concurrent call.
MaxParLen == 3

\* The goroutines that call ParseCmd.
Goroutines == {"g1", "g2"}
ParRunes == {"a", SP, DQ}
ParStrings == UNION {[1..k -> ParRunes] : k \in 0..MaxParLen}

\* No single call is running.
NoSingleCall ==
    /\ arg = <<>> /\ pc = "done" /\ cmdStr = <<>> /\ idx = 1
    /\ result = <<>> /\ current = <<>> /\ inQuotes = FALSE
    /\ quote = NoQuote /\ hadQuotes = FALSE /\ ret = <<>>

\* A mutant of LocalsOf: the scanner state is package-level, every call uses that of the first.
LocalsShared(g) == calls["g1"].loc

\* The scanner state that the call of goroutine g works on.
LocalsOf(g) == calls[g].loc

InitPar ==
    /\ NoSingleCall
    /\ NoCommand
    /\ NoShx
    /\ calls \in [Goroutines ->
          {[arg |-> a, pc |-> "call", cmdStr |-> a, idx |-> 1,
            loc |-> ZeroLocals, ret |-> <<>>] : a \in ParStrings}]

\* cmdStr = strings.TrimSpace(cmdStr); if cmdStr == "" { return []string{} }
ParEnter(g) ==
    /\ calls[g].pc = "call"
    /\ LET t == TrimSpace(calls[g].cmdStr)
       IN  calls' = [calls EXCEPT ![g].cmdStr = t,
                                  ![g].pc = IF t = <<>> THEN "done" ELSE "scan"]
    /\ UNCHANGED <<parserVars, cmdVars, shxVars>>

\* One iteration of the range loop.
ParScan(g) ==
    /\ calls[g].pc = "scan" /\ calls[g].idx <= Len(calls[g].cmdStr)
    /\ calls' = [calls EXCEPT
                    ![g].loc = ScanRune(LocalsOf(g), calls[g].cmdStr[calls[g].idx]),
                    ![g].idx = @ + 1]
    /\ UNCHANGED <<parserVars, cmdVars, shxVars>>

\* After the loop: the last word, the check of inQuotes, the return.
ParFinish(g) ==
    /\ calls[g].pc = "scan" /\ calls[g].idx > Len(calls[g].cmdStr)
    /\ calls' = [calls EXCEPT
                    ![g].loc = FinalFlush(LocalsOf(g)),
                    ![g].ret = Returned(FinalFlush(LocalsOf(g))),
                    ![g].pc = "done"]
    /\ UNCHANGED <<parserVars, cmdVars, shxVars>>

NextPar == \E g \in Goroutines : ParEnter(g) \/ ParScan(g) \/ ParFinish(g)

SpecPar == InitPar /\ [][NextPar]_vars

(***************************************************************************)
(* Vocabulary of the properties, defined on the scanned string alone.      *)
(***************************************************************************)
Blanks == {SP, TAB}

\* The quote that is open just before position k of str is read (NoQuote if none).
RECURSIVE OpenAt(_, _)
OpenAt(str, k) ==
    IF k = 1 THEN NoQuote
    ELSE LET q == OpenAt(str, k - 1)
             r == str[k - 1]
         IN  IF q = NoQuote THEN (IF IsQuoteRune(r) THEN r ELSE NoQuote)
             ELSE IF r = q THEN NoQuote ELSE q

\* Position k holds a quote rune that opens or closes a quote.
IsDelimiter(str, k) ==
    IsQuoteRune(str[k]) /\ OpenAt(str, k) \in {NoQuote, str[k]}

\* Position k holds a space or tab outside quotes.
IsUnquotedBlank(str, k) == str[k] \in Blanks /\ OpenAt(str, k) = NoQuote

\* All quotes of str are closed.
WellFormed(str) == OpenAt(str, Len(str) + 1) = NoQuote

\* The runes of str[lo..hi] that are neither delimiters nor unquoted blanks.
RECURSIVE ContentOf(_, _, _)
ContentOf(str, lo, hi) ==
    IF lo > hi THEN <<>>
    ELSE (IF IsDelimiter(str, lo) \/ IsUnquotedBlank(str, lo)
          THEN <<>> ELSE <<str[lo]>>) \o ContentOf(str, lo + 1, hi)

\* The positions where a maximal run without unquoted blanks starts.
RunStarts(str) ==
    {k \in 1..Len(str) :
        ~IsUnquotedBlank(str, k) /\ (k = 1 \/ IsUnquotedBlank(str, k - 1))}

\* The start of the w-th run and the end of the run that starts at k.
RunStart(str, w) ==
    CHOOSE k \in RunStarts(str) :
        Cardinality({j \in RunStarts(str) : j < k}) = w - 1

RunEnd(str, k) ==
    CHOOSE j \in k..Len(str) :
        /\ \A m \in k..j : ~IsUnquotedBlank(str, m)
        /\ j = Len(str) \/ IsUnquotedBlank(str, j + 1)

RECURSIVE Flatten(_)
Flatten(words) ==
    IF words = <<>> THEN <<>> ELSE Head(words) \o Flatten(Tail(words))

\* strings.Join(words, " ")
RECURSIVE Join(_)
Join(words) ==
    IF words = <<>> THEN <<>>
    ELSE IF Len(words) = 1 THEN Head(words)
    ELSE Head(words) \o <<SP>> \o Join(Tail(words))

Count(r, str) == Cardinality({k \in 1..Len(str) : str[k] = r})

\* str with the rune r inserted before position k.
InsertAt(str, k, r) ==
    SubSeq(str, 1, k - 1) \o <<r>> \o SubSeq(str, k, Len(str))

(***************************************************************************)
(* The command-construction layer and the Command object.                  *)
(* src/ holds two generations of it: command.go with internal.go, where a  *)
(* Command is configured and builds its exec.Cmd when it is executed, and  *)
(* Builder.go, where a Builder is configured and Build wraps an exec.Cmd.  *)
(***************************************************************************)
\* Longest string given to NewCmdStr and largest timeout given to WithTimeout.
MaxCmdLen == 3
MaxTimeout == 1

CmdRunes == {"a", SP, DQ}
CmdLines == UNION {[1..k -> CmdRunes] : k \in 0..MaxCmdLen}

\* The goroutines that use the Command.
Threads == {"t1", "t2"}

SyncMethods == {"Exec", "ExecOutput", "ExecStdout", "ExecResult"}
ExecMethods == SyncMethods \cup {"ExecAsync"}
WaitMethods == {"Wait", "WaitWithCode"}

Idle == [pc |-> "idle", meth |-> "none", fn |-> "none"]

\* The package functions that make a Command and return the exit code of its Exec.
CodeFunctions == {"ExecCode", "ExecCodeStr"}

\* The last call that returned: its method, its error or answer, and its exit code
\* (for Cmd: which exec.Cmd it returned).
NoReturn == [meth |-> "none", ret |-> "none", code |-> 0]

\* NewCmd (command.go:321): a panic on the empty name.
\* os.Environ(): the environment of the parent process.
Environ == << <<"P", "=", "b">> >>

NewCmd(n, a) ==
    IF n = <<>> THEN [obj |-> "panic"]
    ELSE [obj |-> "command", name |-> n, args |-> a, raw |-> <<>>,
          shellType |-> "ShellDefault", envs |-> Environ]

\* NewCmds (command.go:342): a panic on the empty slice.
NewCmds(cmdArgs) ==
    IF Len(cmdArgs) = 0 THEN [obj |-> "panic"]
    ELSE NewCmd(cmdArgs[1], IF Len(cmdArgs) > 1 THEN Tail(cmdArgs) ELSE <<>>)

\* A mutant of NewCmdStr: the string is stored trimmed.
NewCmdStrTrimmed(cmdLine) ==
    LET c == NewCmds(ParseCmd(cmdLine))
    IN  IF c.obj = "panic" THEN c ELSE [c EXCEPT !.raw = TrimSpace(cmdLine)]

\* NewCmdStr (command.go:363)
NewCmdStr(cmdLine) ==
    LET c == NewCmds(ParseCmd(cmdLine))
    IN  IF c.obj = "panic" THEN c ELSE [c EXCEPT !.raw = cmdLine]

\* NewCmd of Builder.go:391
BuilderNewCmd(n, a) ==
    IF n = <<>> THEN [obj |-> "panic"]
    ELSE [obj |-> "builder", name |-> n, args |-> a, raw |-> <<>>,
          shellType |-> "ShellDefault", envs |-> Environ]

\* NewCmds of Builder.go:412: the empty slice gives the zero Builder, whose shellType is ShellSh.
BuilderNewCmds(cmdArgs) ==
    IF Len(cmdArgs) = 0
    THEN [obj |-> "builder", name |-> <<>>, args |-> <<>>, raw |-> <<>>,
          shellType |-> "ShellSh", envs |-> <<>>]
    ELSE BuilderNewCmd(cmdArgs[1], IF Len(cmdArgs) > 1 THEN Tail(cmdArgs) ELSE <<>>)

\* NewCmdStr of Builder.go:433
BuilderNewCmdStr(cmdLine) ==
    LET b == BuilderNewCmds(ParseCmd(cmdLine))
    IN  IF b.obj = "panic" THEN b ELSE [b EXCEPT !.raw = cmdLine]

\* strings.Join(words, " ")
RECURSIVE JoinArgs(_)
JoinArgs(words) ==
    IF words = <<>> THEN <<>>
    ELSE IF Len(words) = 1 THEN Head(words)
    ELSE Head(words) \o <<SP>> \o JoinArgs(Tail(words))

\* getCmdStr (internal.go:84)
getCmdStr ==
    IF raw # <<>> THEN raw
    ELSE IF Len(args) = 0 THEN name
    ELSE name \o <<SP>> \o JoinArgs(args)

\* getCmdStr of the Builder
BuilderGetCmdStr ==
    IF raw # <<>> THEN raw ELSE name \o <<SP>> \o JoinArgs(args)

\* exec.Command / exec.CommandContext: through the shell unless shellType is ShellNone.
NewExecCmd(ctx, script) ==
    IF shellType # "ShellNone"
    THEN [id |-> built + 1, ctx |-> ctx, shell |-> TRUE, script |-> script, argv |-> <<>>]
    ELSE [id |-> built + 1, ctx |-> ctx, shell |-> FALSE, script |-> <<>>,
          argv |-> <<name>> \o args]

InitCmd ==
    /\ api \in {"command", "builder"}
    /\ line \in CmdLines
    /\ obj = "none"
    /\ name = <<>> /\ args = <<>> /\ raw = <<>> /\ shellType = "ShellSh"
    /\ dir = <<>> /\ envs = <<>>
    /\ userCtx = "nil" /\ timeout = 0 /\ execCmd = NilExecCmd /\ cancel = "nil"
    /\ execOne = FALSE /\ tctx = "none" /\ proc = "none" /\ waited = FALSE
    /\ thr = [t \in Threads |-> Idle]
    /\ last = NoReturn
    /\ casPassed = 0 /\ built = 0 /\ spawned = 0
    /\ NoSingleCall /\ NoCalls /\ NoShx

untouched(vs) == UNCHANGED vs /\ UNCHANGED <<parserVars, calls, shxVars>>

\* What the methods that do not set the work directory or the environment leave alone.
configured == <<dir, envs>>

\* ExecCode and ExecCodeStr (unnamed/part_009:259-281) after Exec returned err:
\* if err != nil { return -1, err }; return extractExitCode(err), nil
ExecCode(f, err) ==
    [meth |-> f, ret |-> err, code |-> IF err # "nil" THEN -1 ELSE 0]

\* Thread t returns r (and the exit code c) from method m.
Returns(t, m, r, c) ==
    /\ thr' = [thr EXCEPT ![t] = Idle]
    /\ last' = IF thr[t].fn \in CodeFunctions
               THEN ExecCode(thr[t].fn, r)
               ELSE [meth |-> m, ret |-> r, code |-> c]

\* Thread t goes on inside method m.
Goes(t, m, at) ==
    /\ thr' = [thr EXCEPT ![t].pc = at, ![t].meth = m]
    /\ UNCHANGED last

Constructed(c) ==
    /\ obj' = c.obj
    /\ IF c.obj = "panic"
       THEN UNCHANGED <<name, args, raw, shellType, envs>>
       ELSE /\ name' = c.name /\ args' = c.args /\ raw' = c.raw
            /\ shellType' = c.shellType /\ envs' = c.envs
    /\ UNCHANGED dir
    /\ untouched(<<api, line, userCtx, timeout, execCmd, cancel, execOne, tctx,
                   proc, waited, thr, last, casPassed, built, spawned>>)

\* cmd := NewCmdStr(line) of command.go
CallNewCmdStr ==
    /\ api = "command" /\ obj = "none"
    /\ Constructed(NewCmdStr(line))

\* b := NewCmdStr(line) of Builder.go
CallBuilderNewCmdStr ==
    /\ api = "builder" /\ obj = "none"
    /\ Constructed(BuilderNewCmdStr(line))

\* Builder.Build (Builder.go:599): the exec.Cmd is made here and wrapped.
BuilderBuild ==
    /\ obj = "builder"
    /\ obj' = "wrapped"
    /\ execCmd' = NewExecCmd("none", BuilderGetCmdStr)
    /\ built' = built + 1
    /\ execOne' = FALSE
    /\ untouched(<<api, line, configured, name, args, raw, shellType, userCtx, timeout,
                   cancel, tctx, proc, waited, thr, last, casPassed, spawned>>)

\* Command.Exec of the Builder generation (command.go:39): the swap, then cmd.Run().
WrappedExec(t) ==
    /\ obj = "wrapped" /\ thr[t].pc = "idle"
    /\ IF execOne
       THEN /\ Returns(t, "Exec", "ErrAlreadyExecuted", 0)
            /\ UNCHANGED <<execOne, casPassed, spawned, proc, waited>>
       ELSE /\ execOne' = TRUE
            /\ casPassed' = casPassed + 1
            /\ spawned' = spawned + 1
            /\ \E end \in {"ok", "failed"} :
                  /\ proc' = end
                  /\ Returns(t, "Exec", IF end = "ok" THEN "nil" ELSE "exitcode", 0)
            /\ waited' = TRUE
    /\ untouched(<<api, line, configured, obj, name, args, raw, shellType, userCtx, timeout,
                   execCmd, cancel, tctx, built>>)

\* Construction of a command from a string, in both generations.
NextCmd ==
    \/ CallNewCmdStr
    \/ CallBuilderNewCmdStr
    \/ BuilderBuild
    \/ \E t \in Threads : WrappedExec(t)

SpecCmd == InitCmd /\ [][NextCmd]_vars

\* The shells given to WithShell: none, and the default one.
ShellTypes == {"ShellNone", "ShellDefault"}

\* if timeout > 0 { c.timeout = timeout }
SetTimeout(d) == IF d > 0 THEN d ELSE timeout

\* WithTimeout (command.go:459): only a positive duration is stored.
WithTimeout(d) ==
    /\ obj = "command"
    /\ timeout' = SetTimeout(d)
    /\ untouched(<<api, line, configured, obj, name, args, raw, shellType, userCtx, execCmd,
                   cancel, execOne, tctx, proc, waited, thr, last, casPassed, built, spawned>>)

\* WithContext (command.go:481) with a non-nil context.
WithContext ==
    /\ obj = "command"
    /\ userCtx' = "user"
    /\ untouched(<<api, line, configured, obj, name, args, raw, shellType, timeout, execCmd,
                   cancel, execOne, tctx, proc, waited, thr, last, casPassed, built, spawned>>)

\* WithShell (command.go:553)
WithShell(s) ==
    /\ obj = "command"
    /\ shellType' = s
    /\ untouched(<<api, line, configured, obj, name, args, raw, userCtx, timeout, execCmd,
                   cancel, execOne, tctx, proc, waited, thr, last, casPassed, built, spawned>>)

\* Longest environment list of the Command.
MaxEnvs == 3

\* The directories, keys, values and environment strings given to the With* methods.
Dirs == {<<>>, <<"/", "t">>, <<"/", "h">>}
Keys == {<<>>, <<"K">>}
Values == {<<>>, <<"v">>}
EnvStrings == {<<>>, <<SP>>, <<"K">>, <<"=", "v">>, <<SP, "=", "v">>, <<"K", "=", "v">>}
EnvLists == {<<>>} \cup {<<e>> : e \in EnvStrings}
                   \cup {<<e, f>> : e \in EnvStrings, f \in {<<"K", "=", "v">>}}

\* if dir != "" { c.dir = dir }
SetWorkDir(d) == IF d # <<>> THEN d ELSE dir

\* WithWorkDir (command.go:377)
WithWorkDir(d) ==
    /\ obj = "command"
    /\ dir' = SetWorkDir(d)
    /\ untouched(<<api, line, obj, name, args, raw, shellType, envs, userCtx, timeout,
                   execCmd, cancel, execOne, tctx, proc, waited, thr, last, casPassed,
                   built, spawned>>)

\* fmt.Sprintf("%s=%s", key, value)
KeyValue(key, value) == key \o <<"=">> \o value

\* A mutant of AddEnv: the key is not tested.
AddEnvAnyKey(key, value) == Append(envs, KeyValue(key, value))

\* if key != "" { c.envs = append(c.envs, fmt.Sprintf("%s=%s", key, value)) }
AddEnv(key, value) == IF key # <<>> THEN Append(envs, KeyValue(key, value)) ELSE envs

\* WithEnv (command.go:399); c.envs is never nil after NewCmd.
WithEnv(key, value) ==
    /\ obj = "command"
    /\ Len(AddEnv(key, value)) <= MaxEnvs
    /\ envs' = AddEnv(key, value)
    /\ untouched(<<api, line, obj, name, args, raw, shellType, dir, userCtx, timeout,
                   execCmd, cancel, execOne, tctx, proc, waited, thr, last, casPassed,
                   built, spawned>>)

\* strings.SplitN(env, "=", 2)[0], and whether there is a second part
KeyPart(env) ==
    IF \E k \in 1..Len(env) : env[k] = "="
    THEN SubSeq(env, 1, (CHOOSE k \in 1..Len(env) :
                            env[k] = "=" /\ \A j \in 1..(k - 1) : env[j] # "=") - 1)
    ELSE env
HasValuePart(env) == \E k \in 1..Len(env) : env[k] = "="

\* validateEnvVar (internal.go:127): err == nil
validateEnvVar(env) ==
    /\ TrimSpace(env) # <<>>
    /\ HasValuePart(env)
    /\ TrimSpace(KeyPart(env)) # <<>>

\* validEnvs: the valid strings of the list, in order
RECURSIVE validEnvs(_)
validEnvs(list) ==
    IF list = <<>> THEN <<>>
    ELSE (IF validateEnvVar(Head(list)) THEN <<Head(list)>> ELSE <<>>)
         \o validEnvs(Tail(list))

\* if len(envs) == 0 { return c }; c.envs = append(c.envs, validEnvs...)
AddEnvs(list) == IF Len(list) = 0 THEN envs ELSE envs \o validEnvs(list)

\* WithEnvs (command.go:424)
WithEnvs(list) ==
    /\ obj = "command"
    /\ Len(AddEnvs(list)) <= MaxEnvs
    /\ envs' = AddEnvs(list)
    /\ untouched(<<api, line, obj, name, args, raw, shellType, dir, userCtx, timeout,
                   execCmd, cancel, execOne, tctx, proc, waited, thr, last, casPassed,
                   built, spawned>>)

\* The context buildExecCmd binds the process to (internal.go:28-59).
BoundCtx == IF userCtx # "nil" THEN userCtx ELSE IF timeout > 0 THEN "timeout" ELSE "none"

\* buildExecCmd after its test of c.execCmd (internal.go:28-66): it takes no lock,
\* so what it assigns replaces what another goroutine assigned since the test.
buildExecCmd ==
    /\ execCmd' = NewExecCmd(BoundCtx, getCmdStr)
    /\ built' = built + 1
    /\ IF userCtx = "nil" /\ timeout > 0
       THEN cancel' = "set" /\ userCtx' = "timeout" /\ tctx' = "live"
       ELSE UNCHANGED <<cancel, userCtx, tctx>>

\* After buildExecCmd: Cmd returns c.execCmd, an execution method goes on to start it.
Built(t, cmd) ==
    IF thr[t].meth = "Cmd"
    THEN Returns(t, "Cmd", "execCmd", cmd.id)
    ELSE Goes(t, thr[t].meth, "start")

\* Cmd (command.go:805): returns the exec.Cmd, calls buildExecCmd if there is none yet.
Cmd(t) ==
    /\ obj = "command" /\ thr[t].pc = "idle"
    /\ IF execCmd # NilExecCmd
       THEN Returns(t, "Cmd", "execCmd", execCmd.id)
       ELSE Goes(t, "Cmd", "build")
    /\ untouched(<<api, line, configured, obj, name, args, raw, shellType, userCtx, timeout,
                   execCmd, cancel, execOne, tctx, proc, waited, casPassed, built,
                   spawned>>)

\* cancel() ends a live timeout context, which kills a running process bound to it.
Canceled == cancel = "set" /\ tctx = "live"
TctxAfterCleanup == IF Canceled THEN "canceled" ELSE tctx
ProcAfterCleanup ==
    IF Canceled /\ proc = "running" /\ execCmd.ctx = "timeout" THEN "killed" ELSE proc

\* cleanup (internal.go:70)
cleanup ==
    /\ cancel' = "nil"
    /\ tctx' = TctxAfterCleanup
    /\ proc' = ProcAfterCleanup

\* c.userCtx.Err() when the timeout context is in state tc
CtxErr(tc) == IF userCtx = "timeout" THEN tc ELSE "live"

\* judgeError (errors.go:51)
judgeError(err, tc) ==
    IF err = "nil" THEN "nil"
    ELSE IF CtxErr(tc) = "expired" THEN "timeout"
    ELSE IF CtxErr(tc) = "canceled" THEN "canceled"
    ELSE IF err = "notfound" THEN "notfound"
    ELSE IF err \in {"exit", "killed"} THEN "exitcode"
    ELSE "system"

\* extractExitCode (internal.go:106)
extractExitCode(err) ==
    IF err = "nil" THEN 0
    ELSE IF err = "exit" THEN 1
    ELSE -1

Ended == {"ok", "failed", "killed"}

\* The error of Run or Wait for a process that ended as p.
WaitErr(p) == IF p = "ok" THEN "nil" ELSE IF p = "failed" THEN "exit" ELSE "killed"

\* A mutant of CompareAndSwap: a plain store.
StoreOnly(flag) == TRUE

\* c.execOne.CompareAndSwap(false, true): whether the swap happened.
CompareAndSwap(flag) == ~flag

\* An execution method whose swap fails (command.go:652-654).
ExecRejected(t, m) ==
    /\ obj = "command" /\ thr[t].pc = "idle"
    /\ ~CompareAndSwap(execOne)
    /\ Returns(t, m, "ErrAlreadyExecuted", 0)
    /\ untouched(<<api, line, configured, obj, name, args, raw, shellType, userCtx, timeout,
                   execCmd, cancel, execOne, tctx, proc, waited, casPassed, built, spawned>>)

\* An execution method whose swap succeeds.
ExecAdmitted(t, m) ==
    /\ obj = "command" /\ thr[t].pc = "idle"
    /\ CompareAndSwap(execOne)
    /\ execOne' = TRUE
    /\ casPassed' = casPassed + 1
    /\ Goes(t, m, "build")
    /\ untouched(<<api, line, configured, obj, name, args, raw, shellType, userCtx, timeout,
                   execCmd, cancel, tctx, proc, waited, built, spawned>>)

\* c.buildExecCmd() is entered (command.go:656, 807): if c.execCmd != nil { return }
ExecBuild(t) ==
    /\ thr[t].pc = "build"
    /\ IF execCmd # NilExecCmd
       THEN Built(t, execCmd)
       ELSE Goes(t, thr[t].meth, "building")
    /\ untouched(<<api, line, configured, obj, name, args, raw, shellType, userCtx, timeout,
                   execCmd, cancel, execOne, tctx, proc, waited, casPassed, built,
                   spawned>>)

\* The rest of buildExecCmd: the exec.Cmd is made and assigned.
ExecBuilds(t) ==
    /\ thr[t].pc = "building"
    /\ buildExecCmd
    /\ Built(t, execCmd')
    /\ untouched(<<api, line, configured, obj, name, args, raw, shellType, timeout, execOne,
                   proc, waited, casPassed, spawned>>)

\* The Command that ExecCode and ExecCodeStr make for themselves is a new one.
Fresh ==
    /\ ~execOne /\ execCmd = NilExecCmd /\ userCtx = "nil" /\ timeout = 0
    /\ shellType = "ShellDefault" /\ \A t \in Threads : thr[t].pc = "idle"

\* ExecCode, ExecCodeStr (unnamed/part_009:259-281): NewCmd(...).Exec() is entered.
CallExecCode(t, f) ==
    /\ obj = "command" /\ Fresh
    /\ CompareAndSwap(execOne)
    /\ execOne' = TRUE
    /\ casPassed' = casPassed + 1
    /\ thr' = [thr EXCEPT ![t] = [pc |-> "build", meth |-> "Exec", fn |-> f]]
    /\ UNCHANGED last
    /\ untouched(<<api, line, configured, obj, name, args, raw, shellType, userCtx, timeout,
                   execCmd, cancel, tctx, proc, waited, built, spawned>>)

\* Start cannot run the command: exec.Cmd was started before, or its context is done.
CannotStart == proc # "none" \/ (execCmd.ctx = "timeout" /\ tctx # "live")

\* Run or Start starts the process.
ExecStarts(t) ==
    /\ thr[t].pc = "start" /\ ~CannotStart
    /\ proc' = "running"
    /\ spawned' = spawned + 1
    /\ IF thr[t].meth \in SyncMethods
       THEN /\ Goes(t, thr[t].meth, "running")
            /\ waited' = TRUE
       ELSE /\ Returns(t, thr[t].meth, "nil", 0)
            /\ UNCHANGED waited
    /\ untouched(<<api, line, configured, obj, name, args, raw, shellType, userCtx, timeout,
                   execCmd, cancel, execOne, tctx, casPassed, built>>)

\* A mutant of ExecFails: a failed start gives the Command back for another try.
ExecFailsAndResets(t) ==
    /\ thr[t].pc = "start"
    /\ execOne' = FALSE
    /\ Returns(t, thr[t].meth, "notfound", 0)
    /\ untouched(<<api, line, configured, obj, name, args, raw, shellType, userCtx, timeout,
                   execCmd, cancel, tctx, proc, waited, casPassed, built, spawned>>)

\* Run or Start fails to start the process; the synchronous methods clean up.
ExecFails(t) ==
    /\ thr[t].pc = "start"
    /\ LET err == IF CannotStart THEN "system" ELSE "notfound"
       IN  Returns(t, thr[t].meth, judgeError(err, tctx), 0)
    /\ IF thr[t].meth \in SyncMethods
       THEN cleanup
       ELSE UNCHANGED <<cancel, tctx, proc>>
    /\ untouched(<<api, line, configured, obj, name, args, raw, shellType, userCtx, timeout,
                   execCmd, execOne, waited, casPassed, built, spawned>>)

\* Run returns: judgeError, then the deferred cleanup (command.go:658-663).
ExecReturns(t) ==
    /\ thr[t].pc = "running" /\ proc \in Ended
    /\ Returns(t, thr[t].meth, judgeError(WaitErr(proc), tctx), 0)
    /\ cleanup
    /\ untouched(<<api, line, configured, obj, name, args, raw, shellType, userCtx, timeout,
                   execCmd, execOne, waited, casPassed, built, spawned>>)

\* The process ends by itself.
ProcessExits(end) ==
    /\ proc = "running"
    /\ proc' = end
    /\ untouched(<<api, line, configured, obj, name, args, raw, shellType, userCtx, timeout,
                   execCmd, cancel, execOne, tctx, waited, thr, last, casPassed, built, spawned>>)

\* The deadline of the timeout context passes.
DeadlineExceeded ==
    /\ tctx = "live"
    /\ tctx' = "expired"
    /\ proc' = IF proc = "running" /\ execCmd.ctx = "timeout" THEN "killed" ELSE proc
    /\ untouched(<<api, line, configured, obj, name, args, raw, shellType, userCtx, timeout,
                   execCmd, cancel, execOne, waited, thr, last, casPassed, built, spawned>>)

\* Wait and WaitWithCode return for the error err of execCmd.Wait().
WaitDone(t, m, err, tc) ==
    Returns(t, m, judgeError(err, tc), IF m = "WaitWithCode" THEN extractExitCode(err) ELSE 0)

\* Wait (command.go:788) and WaitWithCode (unnamed/part_007:536) with no exec.Cmd.
WaitNotStarted(t, m) ==
    /\ obj = "command" /\ thr[t].pc = "idle"
    /\ execCmd = NilExecCmd
    /\ Returns(t, m, "ErrNotStarted", IF m = "WaitWithCode" THEN -1 ELSE 0)
    /\ untouched(<<api, line, configured, obj, name, args, raw, shellType, userCtx, timeout,
                   execCmd, cancel, execOne, tctx, proc, waited, casPassed, built, spawned>>)

\* execCmd.Wait() fails at once (not started, or waited for already); cleanup; judgeError.
WaitRefused(t, m) ==
    /\ obj = "command" /\ thr[t].pc = "idle"
    /\ execCmd # NilExecCmd
    /\ proc = "none" \/ waited
    /\ cleanup
    /\ WaitDone(t, m, "system", TctxAfterCleanup)
    /\ untouched(<<api, line, configured, obj, name, args, raw, shellType, userCtx, timeout,
                   execCmd, execOne, waited, casPassed, built, spawned>>)

\* execCmd.Wait() blocks until the process ends.
WaitBlocks(t, m) ==
    /\ obj = "command" /\ thr[t].pc = "idle"
    /\ execCmd # NilExecCmd
    /\ proc # "none" /\ ~waited
    /\ waited' = TRUE
    /\ Goes(t, m, "wait")
    /\ untouched(<<api, line, configured, obj, name, args, raw, shellType, userCtx, timeout,
                   execCmd, cancel, execOne, tctx, proc, casPassed, built, spawned>>)

\* execCmd.Wait() returns; cleanup; judgeError (command.go:793-798).
WaitReturns(t) ==
    /\ thr[t].pc = "wait" /\ proc \in Ended
    /\ cleanup
    /\ WaitDone(t, thr[t].meth, WaitErr(proc), TctxAfterCleanup)
    /\ untouched(<<api, line, configured, obj, name, args, raw, shellType, userCtx, timeout,
                   execCmd, execOne, waited, casPassed, built, spawned>>)

\* A mutant of NoProcess: only execCmd is tested.
NoProcessNilCmdOnly == execCmd = NilExecCmd

\* c.execCmd == nil || c.execCmd.Process == nil
NoProcess == execCmd = NilExecCmd \/ proc = "none"

\* Kill (command.go:816)
Kill(t) ==
    /\ obj = "command" /\ thr[t].pc = "idle"
    /\ Returns(t, "Kill", IF NoProcess THEN "ErrNoProcess"
                           ELSE IF proc = "running" THEN "nil" ELSE "system", 0)
    /\ proc' = IF proc = "running" THEN "killed" ELSE proc
    /\ untouched(<<api, line, configured, obj, name, args, raw, shellType, userCtx, timeout,
                   execCmd, cancel, execOne, tctx, waited, casPassed, built, spawned>>)

Queries == {"Signal", "IsRunning", "GetPID", "IsExecuted"}

\* Signal, IsRunning, GetPID and IsExecuted (command.go:828-872)
Answer(q) ==
    IF q = "Signal"
    THEN IF NoProcess THEN "ErrNoProcess" ELSE IF proc = "running" THEN "nil" ELSE "system"
    ELSE IF q = "IsRunning" THEN IF proc = "running" THEN "true" ELSE "false"
    ELSE IF q = "GetPID" THEN IF NoProcess THEN "0" ELSE "pid"
    ELSE IF execOne THEN "true" ELSE "false"

Query(t, q) ==
    /\ obj = "command" /\ thr[t].pc = "idle"
    /\ Returns(t, q, Answer(q), 0)
    /\ untouched(<<api, line, configured, obj, name, args, raw, shellType, userCtx, timeout,
                   execCmd, cancel, execOne, tctx, proc, waited, casPassed, built, spawned>>)

\* The life of one Command made by NewCmd("a").
InitRun ==
    /\ api = "command" /\ line = <<>>
    /\ LET c == NewCmd(<<"a">>, <<>>)
       IN  /\ obj = c.obj /\ name = c.name /\ args = c.args /\ raw = c.raw
           /\ shellType = c.shellType /\ envs = c.envs
    /\ dir = <<>>
    /\ userCtx = "nil" /\ timeout = 0 /\ execCmd = NilExecCmd /\ cancel = "nil"
    /\ execOne = FALSE /\ tctx = "none" /\ proc = "none" /\ waited = FALSE
    /\ thr = [t \in Threads |-> Idle]
    /\ last = NoReturn
    /\ casPassed = 0 /\ built = 0 /\ spawned = 0
    /\ NoSingleCall /\ NoCalls /\ NoShx

NextRun ==
    \/ \E d \in (-1)..MaxTimeout : WithTimeout(d)
    \/ WithContext
    \/ \E s \in ShellTypes : WithShell(s)
    \/ \E t \in Threads : Cmd(t)
    \/ \E t \in Threads, m \in ExecMethods : ExecRejected(t, m)
    \/ \E t \in Threads, m \in ExecMethods : ExecAdmitted(t, m)
    \/ \E t \in Threads, f \in CodeFunctions : CallExecCode(t, f)
    \/ \E t \in Threads : ExecBuild(t)
    \/ \E t \in Threads : ExecBuilds(t)
    \/ \E t \in Threads : ExecStarts(t)
    \/ \E t \in Threads : ExecFails(t)
    \/ \E t \in Threads : ExecReturns(t)
    \/ \E end \in {"ok", "failed"} : ProcessExits(end)
    \/ DeadlineExceeded
    \/ \E t \in Threads, m \in WaitMethods : WaitNotStarted(t, m)
    \/ \E t \in Threads, m \in WaitMethods : WaitRefused(t, m)
    \/ \E t \in Threads, m \in WaitMethods : WaitBlocks(t, m)
    \/ \E t \in Threads : WaitReturns(t)
    \/ \E t \in Threads : Kill(t)
    \/ \E t \in Threads, q \in Queries : Query(t, q)

SpecRun == InitRun /\ [][NextRun]_vars

\* The configuration of one Command made by NewCmd("a").
NextCfg ==
    \/ \E d \in Dirs : WithWorkDir(d)
    \/ \E k \in Keys, v \in Values : WithEnv(k, v)
    \/ \E list \in EnvLists : WithEnvs(list)
    \/ \E d \in (-1)..MaxTimeout : WithTimeout(d)
    \/ WithContext
    \/ \E s \in ShellTypes : WithShell(s)

SpecCfg == InitRun /\ [][NextCfg]_vars

(***************************************************************************)
(* A Shx (shx/shx.go, shx/types.go and the methods of package shx).        *)
(***************************************************************************)
MaxShxEnvs == 2
MaxWith == 2

WithMethods ==
    {"WithDir", "WithEnv", "WithEnvs", "WithStdin", "WithStdout", "WithStderr",
     "WithTimeout", "WithContext"}

OutputMethods == {"ExecOutput", "ExecContextOutput"}

ContextMethods == {"ExecContext", "ExecContextOutput"}

ShxExecMethods == {"Exec", "ExecOutput"} \cup ContextMethods

\* The With methods are not safe for concurrent use: one goroutine configures the Shx.
Configurers == {"t1"}

ShxIdle == [pc |-> "idle", meth |-> "none", val |-> <<>>]

NoShxReturn == [meth |-> "none", ctx |-> "none", ret |-> "none"]

\* mustGetwd()
Getwd == <<"cwd">>

\* return &Shx{raw: cmdStr, parser: ..., env: expand.ListEnviron(os.Environ()...), dir: mustGetwd()}
New(str) ==
    [raw |-> str, dir |-> Getwd, env |-> Environ, stdin |-> "nil", stdout |-> "nil",
     stderr |-> "nil", ctx |-> "nil", timeout |-> 0, cancel |-> "nil", executed |-> FALSE]

\* The arguments the calls are made with; a map is the list of its entries.
Arguments(m) ==
    CASE m = "WithDir" -> {<<>>, <<"sub">>, <<"missing">>}
      [] m = "WithEnv" -> {<< <<>>, <<"v">> >>, << <<"K">>, <<"v">> >>}
      [] m = "WithEnvs" -> {<<>>, << << <<>>, <<"v">> >> >>, << << <<"K">>, <<"v">> >> >>}
      [] m \in {"WithStdin", "WithStdout", "WithStderr"} -> {<<"nil">>, <<"w">>}
      [] m = "WithTimeout" -> {<<d>> : d \in (-1)..MaxTimeout}
      [] m = "WithContext" -> {<<"nil">>, <<"user">>}

\* The panics of the With methods that come from the argument.
PanicsOnArgument(m, v) ==
    CASE m = "WithDir" -> v = <<"missing">>
      [] m \in {"WithStdin", "WithStdout", "WithStderr", "WithContext"} -> v = <<"nil">>
      [] OTHER -> FALSE

\* The arguments with which a With method returns s at once.
Ignored(m, v) ==
    CASE m = "WithDir" -> v = <<>>
      [] m = "WithEnv" -> v[1] = <<>>
      [] m = "WithEnvs" -> Len(v) = 0
      [] m = "WithTimeout" -> ~(v[1] > 0)
      [] OTHER -> FALSE

\* s.env.Each: the entries whose name is not key
RECURSIVE WithoutKey(_, _)
WithoutKey(list, key) ==
    IF list = <<>> THEN <<>>
    ELSE IF KeyPart(Head(list)) = key THEN WithoutKey(Tail(list), key)
    ELSE <<Head(list)>> \o WithoutKey(Tail(list), key)

\* for key, value := range envs { if key != "" { envList = append(envList, key=value) } }
RECURSIVE NamedEntries(_)
NamedEntries(entries) ==
    IF entries = <<>> THEN <<>>
    ELSE IF Head(entries)[1] # <<>> THEN <<KeyValue(Head(entries)[1], Head(entries)[2])>>
                                         \o NamedEntries(Tail(entries))
    ELSE NamedEntries(Tail(entries))

\* The assignment a With method ends with.
Assigned(s, m, v) ==
    CASE m = "WithDir" -> [s EXCEPT !.dir = Getwd \o v]
      [] m = "WithEnv" -> [s EXCEPT !.env = Append(WithoutKey(@, v[1]), KeyValue(v[1], v[2]))]
      [] m = "WithEnvs" -> [s EXCEPT !.env = @ \o NamedEntries(v)]
      [] m = "WithStdin" -> [s EXCEPT !.stdin = v[1]]
      [] m = "WithStdout" -> [s EXCEPT !.stdout = v[1]]
      [] m = "WithStderr" -> [s EXCEPT !.stderr = v[1]]
      [] m = "WithTimeout" -> [s EXCEPT !.timeout = v[1]]
      [] m = "WithContext" -> [s EXCEPT !.ctx = v[1]]

\* The fields that differ from those New gave the Shx.
Configured(s) ==
    {f \in {"dir", "env", "stdin", "stdout", "stderr", "timeout", "ctx"} :
        s[f] # New(s.raw)[f]}

ShxFrame == UNCHANGED <<parserVars, calls, cmdVars>>

\* The context a call was given: "user", or "none" if the method takes no context.
Given(m) == IF m \in ContextMethods THEN "user" ELSE "none"

ShxReturns(g, m, c, r) ==
    /\ shxThr' = [shxThr EXCEPT ![g] = ShxIdle]
    /\ shxLast' = [meth |-> m, ctx |-> c, ret |-> r]

ShxGoes(g, m, v, at) ==
    /\ shxThr' = [shxThr EXCEPT ![g] = [pc |-> at, meth |-> m, val |-> v]]
    /\ UNCHANGED shxLast

\* s.executed.Load()
Load == shx.executed

\* if s.executed.Load() { panic("shx has already been executed") }
WithRefused(g, m) ==
    /\ shxThr[g].pc = "idle"
    /\ Load
    /\ ShxReturns(g, m, "none", "PanicExecuted")
    /\ UNCHANGED <<shx, ran>>
    /\ ShxFrame

\* The tests of a With method that come before its assignment.
WithChecked(g, m, v) ==
    /\ shxThr[g].pc = "idle"
    /\ ~Load
    /\ m = "WithEnvs" => Len(shx.env) < MaxShxEnvs
    /\ Cardinality(Configured(shx)) < MaxWith
    /\ IF PanicsOnArgument(m, v) THEN ShxReturns(g, m, "none", "PanicArgument")
       ELSE IF Ignored(m, v) THEN ShxReturns(g, m, "none", "s")
       ELSE ShxGoes(g, m, v, "write")
    /\ UNCHANGED <<shx, ran>>
    /\ ShxFrame

\* s.dir = ..., s.env = ..., s.stdin = ..., ...; return s
WithWrites(g) ==
    /\ shxThr[g].pc = "write"
    /\ shx' = Assigned(shx, shxThr[g].meth, shxThr[g].val)
    /\ ShxReturns(g, shxThr[g].meth, "none", "s")
    /\ UNCHANGED ran
    /\ ShxFrame

\* ExecContext(nil), ExecContextOutput(nil): if ctx == nil { return ErrNilContext }
ExecNilContext(g, m) ==
    /\ shxThr[g].pc = "idle"
    /\ m \in ContextMethods
    /\ ShxReturns(g, m, "nil", "ErrNilContext")
    /\ UNCHANGED <<shx, ran>>
    /\ ShxFrame

\* The bytes.Buffer of a call of ExecOutput or ExecContextOutput by g.
Buffer(g) == g

\* var buf bytes.Buffer; s.stdout = &buf; s.stderr = &buf
SetBuffers(g, m) ==
    /\ shxThr[g].pc = "idle"
    /\ m \in OutputMethods
    /\ shx' = [shx EXCEPT !.stdout = Buffer(g), !.stderr = Buffer(g)]
    /\ ShxGoes(g, m, <<>>, "mark")
    /\ UNCHANGED ran
    /\ ShxFrame

\* A mutant of markExecuted: the flag is stored, not compared.
markAlways == TRUE

\* s.executed.CompareAndSwap(false, true)
markExecuted == ~shx.executed

\* g is about to call markExecuted in method m (called with a context, if it takes one).
AtMark(g, m) ==
    \/ shxThr[g].pc = "idle" /\ m \in {"Exec", "ExecContext"}
    \/ shxThr[g].pc = "mark" /\ m = shxThr[g].meth

\* if !s.markExecuted() { return ErrAlreadyExecuted }
ShxExecRefused(g, m) ==
    /\ AtMark(g, m)
    /\ ~markExecuted
    /\ ShxReturns(g, m, Given(m), "ErrAlreadyExecuted")
    /\ UNCHANGED <<shx, ran>>
    /\ ShxFrame

ShxExecMarks(g, m) ==
    /\ AtMark(g, m)
    /\ markExecuted
    /\ shx' = [shx EXCEPT !.executed = TRUE]
    /\ ShxGoes(g, m, <<>>, "run")
    /\ UNCHANGED ran
    /\ ShxFrame

\* buildContext: s.ctx if it is set, else a timeout context if s.timeout > 0, else Background
buildContext(s) ==
    IF s.ctx # "nil" THEN [ctx |-> s.ctx, cancel |-> "nil"]
    ELSE IF s.timeout > 0 THEN [ctx |-> "timeout", cancel |-> "set"]
    ELSE [ctx |-> "background", cancel |-> "nil"]

\* interp.Env(s.env), interp.Dir(s.dir), interp.StdIO(s.stdin, s.stdout, s.stderr)
buildRunner(s, ctx) ==
    [ctx |-> ctx, env |-> s.env, dir |-> s.dir, stdin |-> s.stdin, stdout |-> s.stdout,
     stderr |-> s.stderr]

\* ctx := s.buildContext(); execWithContext(ctx) up to runner.Run
execWithContext(g) ==
    /\ shxThr[g].pc = "run"
    /\ LET m == shxThr[g].meth
           b == IF m \in ContextMethods THEN [ctx |-> "argument", cancel |-> shx.cancel]
                ELSE buildContext(shx)
       IN  /\ shx' = [shx EXCEPT !.cancel = b.cancel]
           /\ ran' = Append(ran, buildRunner(shx, b.ctx))
           /\ ShxGoes(g, m, <<>>, "running")
    /\ ShxFrame

\* err = runner.Run(ctx, file); return handleError(err, s.raw, s.timeout)
ShxExecReturns(g, err) ==
    /\ shxThr[g].pc = "running"
    /\ ShxReturns(g, shxThr[g].meth, Given(shxThr[g].meth), err)
    /\ UNCHANGED <<shx, ran>>
    /\ ShxFrame

\* The life of one Shx made by New("a").
InitShx ==
    /\ shx = New(<<"a">>)
    /\ shxThr = [g \in Threads |-> ShxIdle]
    /\ shxLast = NoShxReturn
    /\ ran = <<>>
    /\ NoSingleCall /\ NoCalls /\ NoCommand

NextShx ==
    \/ \E g \in Configurers, m \in WithMethods : WithRefused(g, m)
    \/ \E g \in Configurers, m \in WithMethods : \E v \in Arguments(m) : WithChecked(g, m, v)
    \/ \E g \in Configurers : WithWrites(g)
    \/ \E g \in Threads, m \in ContextMethods : ExecNilContext(g, m)
    \/ \E g \in Threads, m \in OutputMethods : SetBuffers(g, m)
    \/ \E g \in Threads, m \in ShxExecMethods : ShxExecRefused(g, m)
    \/ \E g \in Threads, m \in ShxExecMethods : ShxExecMarks(g, m)
    \/ \E g \in Threads : execWithContext(g)
    \/ \E g \in Threads, err \in {"nil", "error"} : ShxExecReturns(g, err)

SpecShx == InitShx /\ [][NextShx]_vars

Succeeded == pc = "done" /\ ~inQuotes

(***************************************************************************)
(* C1: if the scan ends while a quote is open, ParseCmd returns the empty  *)
(* sequence, however many words were collected; a non-empty return implies *)
(* that the scan ended outside quotes.                                     *)
(***************************************************************************)
C1_UnclosedQuoteReturnsEmpty ==
    pc = "done" => /\ inQuotes => ret = <<>>
                   /\ ret # <<>> => ~inQuotes /\ ret = result

C1_Witness ==
    pc = "done" /\ inQuotes /\ Len(result) >= 2 /\ ret = <<>>

(***************************************************************************)
(* C2 as stated: on success the output words, concatenated in order, are   *)
(* the runes of the argument without the quote delimiters and the unquoted *)
(* spaces and tabs.  (Refuted: white space that TrimSpace removes at the   *)
(* ends of the argument, a newline for instance, is dropped as well.)      *)
(***************************************************************************)
C2_Original_ContentOfArgument ==
    Succeeded => Flatten(ret) = ContentOf(arg, 1, Len(arg))

(***************************************************************************)
(* C2 amended: on success the output words, concatenated in order, are the *)
(* runes of the trimmed argument without the quote delimiters and the      *)
(* unquoted spaces and tabs: nothing dropped, duplicated or reordered.     *)
(***************************************************************************)
C2_ContentOfTrimmedArgument ==
    Succeeded =>
        LET t == TrimSpace(arg)
        IN  cmdStr = t /\ Flatten(ret) = ContentOf(t, 1, Len(t))

C2_Witness ==
    /\ Succeeded
    /\ \E w \in 1..Len(ret) : \E k, l \in 1..Len(ret[w]) :
          ret[w][k] = SP /\ IsQuoteRune(ret[w][l])

(***************************************************************************)
(* C3: a space or tab read inside quotes is appended to the current word   *)
(* and appends nothing to result; a space or tab ends a word only outside  *)
(* quotes.                                                                 *)
(***************************************************************************)
C3_BoundaryOnlyOutsideQuotes ==
    [][Scanning /\ Rune \in Blanks =>
          /\ inQuotes => /\ current' = Append(current, Rune)
                         /\ result' = result
                         /\ inQuotes'
          /\ result' # result => ~inQuotes]_vars

C3_Witness ==
    /\ pc = "scan" /\ idx > 1 /\ inQuotes
    /\ cmdStr[idx - 1] \in Blanks
    /\ current # <<>> /\ Last(current) = cmdStr[idx - 1]
    /\ result = <<>>

(***************************************************************************)
(* C4: inside a quote, a quote rune of another kind is appended to the     *)
(* current word and leaves inQuotes, quote and result unchanged; only the  *)
(* rune that opened the quote closes it.                                   *)
(***************************************************************************)
C4_OtherQuoteIsContent ==
    [][/\ Scanning /\ inQuotes /\ IsQuoteRune(Rune) /\ Rune # quote =>
            /\ current' = Append(current, Rune)
            /\ inQuotes' /\ quote' = quote /\ result' = result
       /\ inQuotes /\ ~inQuotes' => Scanning /\ Rune = quote]_vars

C4_Witness ==
    /\ pc = "scan" /\ idx > 1 /\ inQuotes
    /\ IsQuoteRune(cmdStr[idx - 1]) /\ cmdStr[idx - 1] # quote
    /\ current # <<>> /\ Last(current) = cmdStr[idx - 1]

(***************************************************************************)
(* C5: closing a quote emits no word; result grows only at an unquoted     *)
(* space or tab or at the end of the scan, so that on success the w-th     *)
(* output word is the content of the w-th maximal run without unquoted     *)
(* blanks, quoted and unquoted segments concatenated.                      *)
(***************************************************************************)
C5_ClosingQuoteEmitsNothing ==
    [][/\ inQuotes /\ ~inQuotes' => result' = result /\ current' = current
       /\ result' # result =>
            \/ Scanning /\ Rune \in Blanks /\ ~inQuotes
            \/ pc = "scan" /\ idx > Len(cmdStr)
       /\ pc' = "done" /\ ~inQuotes' =>
            /\ Len(ret') = Cardinality(RunStarts(cmdStr'))
            /\ \A w \in 1..Len(ret') :
                 LET k == RunStart(cmdStr', w)
                 IN  ret'[w] = ContentOf(cmdStr', k, RunEnd(cmdStr', k))]_vars

\* a"a" is returned as the one word aa
C5_Witness ==
    /\ Succeeded
    /\ Len(cmdStr) = 4 /\ cmdStr[1] = "a" /\ cmdStr[2] = DQ /\ cmdStr[4] = DQ
    /\ ret = << <<"a", cmdStr[3]>> >>

\* A step that reaches an emission point: an unquoted space or tab, or the end of the scan.
AtBoundary == Scanning /\ Rune \in Blanks /\ ~inQuotes
AtEnd == pc = "scan" /\ idx > Len(cmdStr)

(***************************************************************************)
(* C6 as stated: at an unquoted space or tab and at the end of the scan a  *)
(* word is emitted exactly when current is non-empty or hadQuotes is set,  *)
(* and after each emission current and hadQuotes are reset.  (Refuted: the *)
(* emission at the end of the scan resets neither.)                        *)
(***************************************************************************)
C6_Original_EveryEmissionResets ==
    [][AtBoundary \/ AtEnd =>
          IF Len(current) > 0 \/ hadQuotes
          THEN /\ result' = Append(result, current)
               /\ current' = <<>> /\ hadQuotes' = FALSE
          ELSE result' = result]_vars

(***************************************************************************)
(* C6 amended: at an unquoted space or tab and at the end of the scan a    *)
(* word is emitted exactly when current is non-empty or hadQuotes is set;  *)
(* a token made only of empty quote pairs yields one empty word; after an  *)
(* emission at an unquoted space or tab current and hadQuotes are reset,   *)
(* the emission at the end of the scan leaves both as they are.            *)
(***************************************************************************)
C6_EmitWhenNonEmptyOrQuoted ==
    [][/\ AtBoundary \/ AtEnd =>
            IF Len(current) > 0 \/ hadQuotes
            THEN result' = Append(result, current)
            ELSE result' = result
       /\ AtBoundary /\ result' # result =>
            current' = <<>> /\ hadQuotes' = FALSE
       /\ AtEnd => current' = current /\ hadQuotes' = hadQuotes
       /\ pc' = "done" /\ ~inQuotes' =>
            \A w \in 1..Cardinality(RunStarts(cmdStr')) :
                LET k == RunStart(cmdStr', w)
                IN  (\A m \in k..RunEnd(cmdStr', k) : IsDelimiter(cmdStr', m))
                        => w <= Len(ret') /\ ret'[w] = <<>>]_vars

\* a "" is returned as the two words a and the empty string
C6_Witness ==
    /\ Succeeded
    /\ Len(cmdStr) = 4 /\ cmdStr[1] = "a" /\ IsQuoteRune(cmdStr[3])
    /\ cmdStr[4] = cmdStr[3]
    /\ ret = << <<"a">>, <<>> >>

(***************************************************************************)
(* C7: a run of unquoted spaces and tabs is one separator: an empty output *)
(* word comes only from a token that contains a quote, the number of words *)
(* is the number of maximal runs without unquoted blanks, and one more     *)
(* unquoted space or tab next to a separator does not change the output.   *)
(***************************************************************************)
C7_BlankRunIsOneSeparator ==
    Succeeded =>
        /\ Len(ret) = Cardinality(RunStarts(cmdStr))
        /\ \A w \in 1..Len(ret) :
             ret[w] = <<>> =>
                LET k == RunStart(cmdStr, w)
                IN  \E m \in k..RunEnd(cmdStr, k) : IsQuoteRune(cmdStr[m])
        /\ \A k \in 1..Len(cmdStr) : \A b \in Blanks :
             IsUnquotedBlank(cmdStr, k) =>
                ParseCmd(InsertAt(cmdStr, k, b)) = ret

C7_Witness ==
    /\ Succeeded
    /\ Len(ret) = 2
    /\ \E k \in 1..(Len(cmdStr) - 1) :
          IsUnquotedBlank(cmdStr, k) /\ IsUnquotedBlank(cmdStr, k + 1)

(***************************************************************************)
(* C8: an argument made only of spaces, tabs, newlines and carriage        *)
(* returns, the empty argument included, yields the empty sequence.        *)
(***************************************************************************)
C8_WhitespaceOnlyReturnsEmpty ==
    pc = "done" /\ (\A k \in 1..Len(arg) : arg[k] \in {SP, TAB, NL, CR})
        => ret = <<>> /\ result = <<>>

C8_Witness ==
    /\ pc = "done"
    /\ \A k \in 1..Len(arg) : arg[k] \in {SP, TAB, NL, CR}
    /\ \E k, l \in 1..Len(arg) : arg[k] = NL /\ arg[l] = SP
    /\ ret = <<>>

NoRuneIn(words, S) ==
    \A w \in 1..Len(words) : \A k \in 1..Len(words[w]) : words[w][k] \notin S

(***************************************************************************)
(* C9 as stated: for a well-formed argument whose output words contain no  *)
(* space, joining the words with one space and parsing again returns the   *)
(* same words.  (Refuted: by an empty word, by a word that contains a tab  *)
(* or a quote rune, by a newline at an end of the joined string.)          *)
(***************************************************************************)
C9_Original_RoundTripNoSpace ==
    Succeeded /\ NoRuneIn(ret, {SP}) => ParseCmd(Join(ret)) = ret

(***************************************************************************)
(* C9 amended: for a well-formed argument whose output words are non-empty *)
(* and contain no white space and no quote rune, joining the words with    *)
(* one space and parsing again returns the same words.                     *)
(***************************************************************************)
C9_RoundTripPlainWords ==
    /\ Succeeded
    /\ \A w \in 1..Len(ret) : ret[w] # <<>>
    /\ NoRuneIn(ret, {SP, TAB, NL, CR, DQ, SQ, BQ})
    => ParseCmd(Join(ret)) = ret

C9_Witness ==
    /\ Succeeded
    /\ Len(ret) = 2 /\ ret[1] # <<>> /\ ret[2] # <<>>
    /\ NoRuneIn(ret, {SP, TAB, NL, CR, DQ, SQ, BQ})
    /\ Join(ret) # cmdStr
    /\ ParseCmd(Join(ret)) = ret

(***************************************************************************)
(* C10: no escape processing: a backslash is appended to the current word  *)
(* and changes nothing else, a quote rune that follows a backslash opens   *)
(* or closes a quote as any other, and on success the output holds every   *)
(* backslash of the scanned string.                                        *)
(***************************************************************************)
C10_BackslashIsOrdinary ==
    [][/\ Scanning /\ Rune = BS =>
            /\ current' = Append(current, BS)
            /\ result' = result /\ inQuotes' = inQuotes
            /\ quote' = quote /\ hadQuotes' = hadQuotes
       /\ Scanning /\ idx > 1 /\ cmdStr[idx - 1] = BS /\ IsQuoteRune(Rune) =>
            /\ ~inQuotes => inQuotes' /\ quote' = Rune /\ current' = current
            /\ inQuotes /\ Rune = quote => ~inQuotes' /\ current' = current
       /\ pc' = "done" /\ ~inQuotes' =>
            /\ Count(BS, Flatten(ret')) = Count(BS, cmdStr')
            /\ Count(BS, cmdStr') = Count(BS, arg')]_vars

\* a backslash, then a quote that opens, then a quote that follows a backslash and closes
C10_Witness ==
    /\ Succeeded
    /\ Len(cmdStr) = 4 /\ cmdStr[1] = BS /\ cmdStr[2] = DQ
    /\ cmdStr[3] = BS /\ cmdStr[4] = DQ
    /\ ret = << <<BS, BS>> >>

(***************************************************************************)
(* C11: ParseCmd is total: the scan reads the runes of the trimmed string  *)
(* one after the other, each exactly once and never outside the string,    *)
(* leaves the loop after the last rune, and every call returns a sequence  *)
(* of strings.                                                             *)
(***************************************************************************)
C11_TotalSinglePass ==
    /\ [][/\ pc = "scan" => idx \in 1..(Len(cmdStr) + 1) /\ cmdStr' = cmdStr
          /\ pc = "scan" /\ pc' = "scan" => idx <= Len(cmdStr) /\ idx' = idx + 1
          /\ pc = "scan" /\ pc' = "done" => idx = Len(cmdStr) + 1 /\ idx' = idx
          /\ pc' = "done" =>
                \A w \in 1..Len(ret') : \A k \in 1..Len(ret'[w]) :
                    ret'[w][k] \in Runes]_vars
    /\ <>(pc = "done")

C11_Witness ==
    pc = "done" /\ Len(cmdStr) >= 3 /\ idx = Len(cmdStr) + 1 /\ Len(ret) >= 2

(***************************************************************************)
(* C13 as stated: before the scan ParseCmd removes the leading and the     *)
(* trailing spaces and tabs, and only those; a newline at an end is kept.  *)
(* (Refuted: strings.TrimSpace removes newlines and carriage returns too.) *)
(***************************************************************************)
C13_Original_TrimsBlanksOnly ==
    pc # "call" =>
        \E lo \in 1..(Len(arg) + 1) : \E hi \in 0..Len(arg) :
            /\ cmdStr = SubSeq(arg, lo, hi)
            /\ \A k \in 1..(lo - 1) : arg[k] \in Blanks
            /\ \A k \in (hi + 1)..Len(arg) : arg[k] \in Blanks
            /\ cmdStr # <<>> => Head(cmdStr) \notin Blanks /\ Last(cmdStr) \notin Blanks

(***************************************************************************)
(* C13 amended: before the scan ParseCmd removes the leading and trailing  *)
(* white space (spaces, tabs, newlines, carriage returns), and only that:  *)
(* the scanned string is the argument from its first to its last rune that *)
(* is not white space.                                                     *)
(***************************************************************************)
C13_TrimsWhiteSpace ==
    pc # "call" =>
        \E lo \in 1..(Len(arg) + 1) : \E hi \in 0..Len(arg) :
            /\ cmdStr = SubSeq(arg, lo, hi)
            /\ \A k \in 1..(lo - 1) : arg[k] \in {SP, TAB, NL, CR}
            /\ \A k \in (hi + 1)..Len(arg) : arg[k] \in {SP, TAB, NL, CR}
            /\ cmdStr # <<>> =>
                  /\ Head(cmdStr) \notin {SP, TAB, NL, CR}
                  /\ Last(cmdStr) \notin {SP, TAB, NL, CR}

C13_Witness ==
    /\ pc = "scan" /\ Len(arg) = 4
    /\ arg[1] = NL /\ arg[4] = CR
    /\ cmdStr = SubSeq(arg, 2, 3)
    /\ cmdStr[1] = BS

(***************************************************************************)
(* C12: ParseCmd is pure: in every interleaving of concurrent calls each   *)
(* call returns what it returns when it runs alone, so two calls with the  *)
(* same argument return the same sequence; a word that was appended to     *)
(* result is not changed by the later steps of the scan.                   *)
(***************************************************************************)
C12_CallsDoNotInterfere ==
    [][\A g \in Goroutines :
          /\ Len(calls'[g].loc.result) >= Len(calls[g].loc.result)
          /\ \A w \in 1..Len(calls[g].loc.result) :
                calls'[g].loc.result[w] = calls[g].loc.result[w]
          /\ calls'[g].pc = "done" =>
                /\ calls'[g].ret = ParseCmd(calls'[g].arg)
                /\ \A h \in Goroutines :
                      calls'[h].pc = "done" /\ calls'[h].arg = calls'[g].arg
                          => calls'[h].ret = calls'[g].ret]_vars

\* one call has emitted a word and fills the reused buffer while the other is inside a quote
C12_Witness ==
    /\ calls # <<>>
    /\ calls["g1"].pc = "scan"
    /\ Len(calls["g1"].loc.result) = 1 /\ calls["g1"].loc.current # <<>>
    /\ calls["g2"].pc = "scan"
    /\ calls["g2"].loc.inQuotes /\ calls["g2"].loc.current # <<>>

(***************************************************************************)
(* C14 as stated: when ParseCmd returns the empty sequence for a non-empty *)
(* command string, NewCmdStr refuses: there is no command object (the call *)
(* fails) and no process is ever started for that string.                  *)
(* (Refuted: NewCmdStr of Builder.go returns a Builder that keeps the raw  *)
(* string, Build hands it to the shell and Exec starts the process.)       *)
(***************************************************************************)
C14_RefusesUnparsed ==
    (line # <<>> /\ ParseCmd(line) = <<>>) =>
        /\ obj \in {"none", "panic"}
        /\ execCmd = NilExecCmd
        /\ spawned = 0

(***************************************************************************)
(* C15 as stated: whenever ParseCmd(s) is not empty, NewCmdStr(s) gives a  *)
(* command whose name is the first token, whose args are the other tokens  *)
(* in order, and whose raw string is s.                                    *)
(* (Refuted: for a first token that is the empty string NewCmd panics.)    *)
(***************************************************************************)
C15_Original_NameArgsRaw ==
    (obj # "none" /\ ParseCmd(line) # <<>>) =>
        /\ obj # "panic"
        /\ name = Head(ParseCmd(line))
        /\ args = Tail(ParseCmd(line))
        /\ raw = line

(***************************************************************************)
(* C15 amended: whenever ParseCmd(s) is not empty and its first token is   *)
(* not the empty string, NewCmdStr(s) gives a command whose name is the    *)
(* first token, whose args are the other tokens in order and unmodified,   *)
(* and whose raw string is s unchanged.                                    *)
(***************************************************************************)
C15_NameArgsRaw ==
    (obj # "none" /\ ParseCmd(line) # <<>> /\ Head(ParseCmd(line)) # <<>>) =>
        /\ obj # "panic"
        /\ name = Head(ParseCmd(line))
        /\ args = Tail(ParseCmd(line))
        /\ raw = line

\* a command with an argument, made from a string of two words
C15_Witness ==
    /\ api = "command" /\ obj = "command"
    /\ Len(args) = 1 /\ args[1] # <<>>
    /\ raw = line

\* The goroutines that are inside an execution method.
Executing(th) ==
    {t \in Threads : th[t].pc \in {"build", "building", "start", "running"}
                        /\ th[t].meth \in ExecMethods}

(***************************************************************************)
(* C16: a Command executes at most once: in every interleaving of calls of *)
(* the execution methods at most one call passes the compare-and-swap of   *)
(* execOne, only that call builds and starts the process, and every other  *)
(* call returns ErrAlreadyExecuted and changes nothing.                    *)
(***************************************************************************)
C16_ExecutesAtMostOnce ==
    [][/\ casPassed' <= 1
       /\ spawned' <= casPassed'
       /\ Cardinality(Executing(thr')) <= 1
       /\ Executing(thr') # Executing(thr) /\ Executing(thr') # {} => ~execOne
       /\ (last' # last /\ last'.meth \in ExecMethods /\ thr' = thr) =>
             /\ execOne
             /\ last'.ret = "ErrAlreadyExecuted"
             /\ UNCHANGED <<execOne, execCmd, userCtx, cancel, tctx, proc, waited,
                            casPassed, spawned>>]_vars

\* one call runs the process while a concurrent call has been turned away
C16_Witness ==
    /\ \E t \in Threads : thr[t].pc = "running" /\ proc = "running"
    /\ last.meth \in ExecMethods /\ last.ret = "ErrAlreadyExecuted"
    /\ spawned = 1

(***************************************************************************)
(* C17: IsExecuted is monotone: it is false for a new Command, only a call *)
(* of an execution method makes it true (configuration, getters and the    *)
(* process-control methods leave it alone), the first such call makes it   *)
(* true whether or not the process starts, and it never becomes false      *)
(* again; IsExecuted reports the flag.                                     *)
(***************************************************************************)
C17_IsExecutedMonotone ==
    /\ [](casPassed = 0 => ~execOne)
    /\ [][/\ execOne => execOne'
          /\ execOne' # execOne =>
                \E t \in Threads : /\ thr[t].pc = "idle" /\ thr'[t].pc = "build"
                                   /\ thr'[t].meth \in ExecMethods
          /\ Executing(thr') # {} => execOne'
          /\ (last' # last /\ last'.meth = "IsExecuted") =>
                last'.ret = (IF execOne THEN "true" ELSE "false")]_vars

\* the process could not be started and IsExecuted still answers true
C17_Witness ==
    /\ execOne /\ proc = "none" /\ spawned = 0
    /\ \A t \in Threads : thr[t].pc = "idle"
    /\ last.meth = "IsExecuted" /\ last.ret = "true"

(***************************************************************************)
(* C18 as stated: a context set with WithContext takes precedence over     *)
(* WithTimeout: when an execution method calls buildExecCmd and a user     *)
(* context has been set, the process is bound to the user context, there   *)
(* is no timeout context and no cancel function is stored; a timeout       *)
(* context is created only when no user context was set and timeout > 0.   *)
(* (Refuted: after Cmd() has built the exec.Cmd with the timeout context,  *)
(* a later WithContext is ignored by buildExecCmd.)                        *)
(***************************************************************************)
C18_ContextTakesPrecedence ==
    [][/\ \A t \in Threads :
             (thr[t].pc \in {"build", "building"} /\ thr'[t].pc = "start"
                  /\ userCtx = "user") =>
                 /\ execCmd'.ctx = "user"
                 /\ tctx' = "none"
                 /\ cancel' = "nil"
       /\ (tctx = "none" /\ tctx' # "none") => (userCtx = "nil" /\ timeout > 0)]_vars

(***************************************************************************)
(* C19 as stated: the timeout context of a Command is created at execution *)
(* time: before the first call of an execution method there is no timeout  *)
(* context, whatever other methods were called.                            *)
(* (Refuted: Cmd() calls buildExecCmd, which creates the timeout context.) *)
(***************************************************************************)
C19_BuiltAtExecution ==
    (obj = "command" /\ ~execOne) => (tctx = "none" /\ cancel = "nil")

(***************************************************************************)
(* C20 as stated: Wait and WaitWithCode on a Command that was never        *)
(* executed return ErrNotStarted (WaitWithCode with code -1) and change    *)
(* nothing, whatever non-executing methods were called before.             *)
(* (Refuted: after Cmd() there is an exec.Cmd, so Wait calls its Wait,     *)
(* runs cleanup and returns the wrapped error of exec.)                    *)
(***************************************************************************)
C20_WaitBeforeStart ==
    [][(last' # last /\ last'.meth \in WaitMethods /\ thr' = thr /\ ~execOne) =>
          /\ last'.ret = "ErrNotStarted"
          /\ last'.meth = "WaitWithCode" => last'.code = -1
          /\ UNCHANGED <<execOne, execCmd, userCtx, cancel, tctx, proc, waited>>]_vars

ProcessControl == {"Kill", "Signal", "GetPID", "IsRunning"}

(***************************************************************************)
(* C21: on a Command with no started process the process-control methods   *)
(* report the absence and change nothing: Kill and Signal return           *)
(* ErrNoProcess, GetPID returns 0 and IsRunning returns false.             *)
(***************************************************************************)
C21_NoProcessReported ==
    [][(last' # last /\ last'.meth \in ProcessControl /\ proc = "none") =>
          /\ last'.meth \in {"Kill", "Signal"} => last'.ret = "ErrNoProcess"
          /\ last'.meth = "GetPID" => last'.ret = "0"
          /\ last'.meth = "IsRunning" => last'.ret = "false"
          /\ UNCHANGED <<obj, name, args, raw, shellType, userCtx, timeout, execCmd,
                         cancel, execOne, tctx, proc, waited, thr, casPassed,
                         spawned>>]_vars

\* Kill on a Command whose exec.Cmd was built and whose start failed
C21_Witness ==
    /\ execCmd # NilExecCmd /\ proc = "none" /\ execOne
    /\ \A t \in Threads : thr[t].pc = "idle"
    /\ last.meth = "Kill" /\ last.ret = "ErrNoProcess"

(***************************************************************************)
(* C28: ParseCmd returns the empty sequence if and only if the trimmed     *)
(* input is empty or a quote is left open at the end: an input with a rune *)
(* that is not white space and with all quotes closed gives at least one   *)
(* word.                                                                   *)
(***************************************************************************)
C28_EmptyIffBlankOrOpen ==
    pc = "done" =>
        (ret = <<>> <=> (TrimSpace(arg) = <<>> \/ ~WellFormed(TrimSpace(arg))))

\* words were scanned and the result is empty because the last quote is open
C28_Witness ==
    /\ pc = "done" /\ ret = <<>>
    /\ Len(result) = 2 /\ inQuotes
    /\ TrimSpace(arg) # <<>>

(***************************************************************************)
(* C30: in every state of the scanner inQuotes implies hadQuotes and that  *)
(* quote is one of the three quote runes; hadQuotes becomes true only when *)
(* a quote opens and becomes false only when a word is emitted at a space  *)
(* or tab outside quotes; result only grows, by appending at its end.      *)
(***************************************************************************)
C30_ScannerInvariants ==
    /\ [](inQuotes => hadQuotes /\ quote \in {DQ, SQ, BQ})
    /\ [][/\ (~hadQuotes /\ hadQuotes') =>
                /\ Scanning /\ Rune \in {DQ, SQ, BQ}
                /\ ~inQuotes /\ inQuotes' /\ quote' = Rune
          /\ (hadQuotes /\ ~hadQuotes') =>
                /\ Scanning /\ Rune \in Blanks /\ ~inQuotes
                /\ result' = Append(result, current)
          /\ \/ result' = result
             \/ /\ Len(result') = Len(result) + 1
                /\ SubSeq(result', 1, Len(result)) = result]_vars

\* a quoted word was emitted at a blank and another quote is open
C30_Witness ==
    /\ pc = "scan" /\ inQuotes /\ quote = SQ
    /\ Len(result) = 1 /\ result[1] = <<>>
    /\ current = <<>>

(***************************************************************************)
(* C22 as stated: ExecCode and ExecCodeStr return the exit code of the     *)
(* command: 0 when it succeeds, the exit code of the process when it exits *)
(* with a non-zero code (1 here), and -1 only when there is no exit code.  *)
(* (Refuted: they return -1 whenever Exec returns an error.)               *)
(***************************************************************************)
C22_ExecCodeReturnsExitCode ==
    [][(last' # last /\ last'.meth \in CodeFunctions) =>
          /\ proc = "ok" => last'.code = 0
          /\ proc = "failed" => last'.code = 1
          /\ last'.code = -1 => proc \notin {"ok", "failed"}]_vars

(***************************************************************************)
(* C23 as stated: Command is safe for concurrent use: when Cmd() and the   *)
(* execution methods are called concurrently, the exec.Cmd is built once,  *)
(* so every caller of Cmd() is given the same exec.Cmd.                    *)
(* (Refuted: buildExecCmd tests and assigns c.execCmd without a lock; two  *)
(* goroutines that both find it nil both build.)                           *)
(***************************************************************************)
C23_BuiltOnce ==
    /\ built <= 1
    /\ last.meth = "Cmd" => last.code = 1

(***************************************************************************)
(* C26 as stated: Wait classifies a failure as Exec does: when the process *)
(* of a Command with a timeout and no user context exits with a non-zero   *)
(* code before the deadline, Wait returns the exit-code error; Wait        *)
(* returns the canceled error only when the context was cancelled before.  *)
(* (Refuted: Wait runs cleanup, which cancels the timeout context, before  *)
(* judgeError reads the error of the context.)                             *)
(***************************************************************************)
C26_WaitClassifiesAsExec ==
    [][\A t \in Threads :
          (thr[t].pc = "wait" /\ thr'[t].pc = "idle") =>
              /\ (proc = "failed" /\ userCtx = "timeout" /\ tctx = "live") =>
                     last'.ret = "exitcode"
              /\ last'.ret = "canceled" => tctx = "canceled"]_vars

(***************************************************************************)
(* C27 as stated: the timeout context does not outlive the operation that  *)
(* ends the command: when a synchronous execution method returns, when     *)
(* ExecAsync returns an error and when Wait or WaitWithCode returns, the   *)
(* cancel function has been called and cleared.                            *)
(* (Refuted: ExecAsync returns the error of Start without cleanup.)        *)
(***************************************************************************)
C27_CancelCalledAndCleared ==
    [][\A t \in Threads :
          (/\ thr[t].pc \in {"start", "running", "wait"} /\ thr'[t].pc = "idle"
           /\ thr[t].meth = "ExecAsync" => last'.ret # "nil") =>
              cancel' = "nil"]_vars

ReturnedAtOnce == shxThr' = shxThr

\* The fields of the Shx that the With methods set.
Configuration(s) ==
    [dir |-> s.dir, env |-> s.env, stdin |-> s.stdin, stdout |-> s.stdout,
     stderr |-> s.stderr, timeout |-> s.timeout, ctx |-> s.ctx]

(***************************************************************************)
(* C24 as it is written: a Shx executes at most once, and once it is       *)
(* marked executed every later Exec and ExecContext returns                *)
(* ErrAlreadyExecuted and every later With method panics and leaves the    *)
(* configuration as it is.                                                 *)
(* (Refuted: ExecContext(nil) on an executed Shx returns ErrNilContext.)   *)
(***************************************************************************)
C24_Original_ExecutesOnceThenFrozen ==
    /\ [](Len(ran) <= 1)
    /\ [][(Load /\ ReturnedAtOnce) =>
            /\ shxLast'.meth \in {"Exec", "ExecContext"} =>
                  shxLast'.ret = "ErrAlreadyExecuted" /\ shx' = shx
            /\ shxLast'.meth \in WithMethods =>
                  /\ shxLast'.ret = "PanicExecuted"
                  /\ Configuration(shx') = Configuration(shx)]_vars

(***************************************************************************)
(* C24: a Shx executes at most once, and once it is marked executed every  *)
(* later Exec, and every later ExecContext with a context that is not nil, *)
(* returns ErrAlreadyExecuted, ExecContext(nil) returns ErrNilContext, and *)
(* every later With method panics; none of these calls changes the Shx.    *)
(***************************************************************************)
C24_ExecutesOnceThenFrozen ==
    /\ [](Len(ran) <= 1)
    /\ [][(Load /\ ReturnedAtOnce) =>
            /\ shxLast'.meth \in {"Exec", "ExecContext"} =>
                  /\ shxLast'.ctx # "nil" => shxLast'.ret = "ErrAlreadyExecuted"
                  /\ shxLast'.ctx = "nil" => shxLast'.ret = "ErrNilContext"
                  /\ shx' = shx
            /\ shxLast'.meth \in WithMethods =>
                  /\ shxLast'.ret = "PanicExecuted"
                  /\ Configuration(shx') = Configuration(shx)]_vars

\* the Shx has run once and WithTimeout has been called on it afterwards
C24_Witness ==
    /\ Len(ran) = 1 /\ Load
    /\ shxLast.meth = "WithTimeout" /\ shxLast.ret = "PanicExecuted"

(***************************************************************************)
(* C29: when ExecOutput or ExecContextOutput (with a context that is not   *)
(* nil) is called on a Shx that is already marked executed, the call       *)
(* leaves the fields stdout and stderr as they are and returns             *)
(* ErrAlreadyExecuted.                                                     *)
(* (Refuted: both methods assign their buffer to s.stdout and s.stderr     *)
(* before markExecuted is tried.)                                          *)
(***************************************************************************)
C29_RejectedLeavesWriters ==
    [][\A g \in Threads :
          (Load /\ shxThr[g].pc \in {"idle", "mark"}
                /\ shxThr'[g].pc \in {"mark", "idle"}
                /\ shxThr'[g].pc # shxThr[g].pc) =>
              /\ shx'.stdout = shx.stdout /\ shx'.stderr = shx.stderr
              /\ shxThr'[g].pc = "idle" => shxLast'.ret = "ErrAlreadyExecuted"]_vars

====
